---- MODULE Spec2Model ----
(***************************************************************************)
(* Model of src/scripts/gradient_gen.py: a colour ramp generator.  The     *)
(* script parses two hex colours, computes one floating-point step per     *)
(* channel, walks range(num_steps) rounding and clamping each channel,     *)
(* appends one CSS variable line per step, returns the string and prints   *)
(* it.                                                                     *)
(*                                                                         *)
(* Python floats are IEEE 754 binary64.  A float is modelled exactly, as a *)
(* sign, an integer part and a sequence of FracBits binary fraction bits;  *)
(* every arithmetic result is rounded to Precision significant bits, ties  *)
(* to even, as the hardware does.  TLC integers are 32 bits wide, hence    *)
(* the bit sequences.                                                      *)
(***************************************************************************)
EXTENDS Integers, Naturals, Sequences, FiniteSets, TLC

\* ------------------------------------------------------------------ bounds
MaxSteps == 5

\* ---------------------------------------------------------------- binary64
\* significant bits of a binary64 float
Precision == 53

\* a fraction is kept as NLimbs digits in base Base, most significant first:
\* FracBits binary places, enough for every quotient d/m with |m| < 2^10 to
\* keep its guard bit inside the sequence
LimbBits == 16

NLimbs == 4

Base == 2^LimbBits

FracBits == NLimbs * LimbBits

\* --------------------------------------------------------- small helpers
Min(a, b) == IF a <= b THEN a ELSE b

Max(a, b) == IF a >= b THEN a ELSE b

Abs(a) == IF a < 0 THEN 0 - a ELSE a

\* number of binary digits of a natural number (0 for 0)
RECURSIVE BitLen(_)
BitLen(n) == IF n = 0 THEN 0 ELSE 1 + BitLen(n \div 2)

\* ------------------------------------------------- binary64 arithmetic
ZeroFrac == SubSeq([j \in 1..NLimbs |-> 0], 1, NLimbs)

\* the float equal to the int n
FInt(n) == [neg |-> n < 0, int |-> Abs(n), frac |-> ZeroFrac]

IsZeroFrac(frac) == \A j \in 1..NLimbs : frac[j] = 0

\* the k-th binary place of a fraction, k in 1..FracBits
Bit(frac, k) ==
    (frac[(k - 1) \div LimbBits + 1]
        \div 2^(LimbBits - 1 - ((k - 1) % LimbBits))) % 2

\* the fraction cut after its k-th binary place
Truncate(frac, k) ==
    SubSeq([j \in 1..NLimbs |->
              IF LimbBits * j <= k THEN frac[j]
              ELSE IF LimbBits * (j - 1) >= k THEN 0
              ELSE LET w == 2^(LimbBits * j - k)
                   IN (frac[j] \div w) * w], 1, NLimbs)

\* add amount < Base to limb j, carrying leftwards; limb 0 is the integer
\* part.  Yields <<fraction, carry into the integer part>>.
RECURSIVE AddAt(_, _, _)
AddAt(frac, j, amount) ==
    IF j = 0 THEN <<frac, amount>>
    ELSE LET v == frac[j] + amount
         IN IF v < Base THEN <<[frac EXCEPT ![j] = v], 0>>
            ELSE AddAt([frac EXCEPT ![j] = v - Base], j - 1, 1)

\* round an exact magnitude int + 0.frac (+ something below the last place
\* when sticky) to Precision significant bits, ties to even
RoundToPrecision(neg, int, frac, sticky) ==
    IF int = 0 /\ IsZeroFrac(frac)
    THEN [neg |-> neg, int |-> 0, frac |-> ZeroFrac]
    ELSE
      LET lead == IF int > 0 THEN 1 - BitLen(int)
                  ELSE CHOOSE k \in 1..FracBits :
                         Bit(frac, k) = 1 /\ \A j \in 1..(k - 1) : Bit(frac, j) = 0
          last == lead + Precision - 1
      IN IF last >= FracBits
         THEN [neg |-> neg, int |-> int, frac |-> frac]
         ELSE
           LET guard == Bit(frac, last + 1)
               rest  == sticky \/ \E k \in (last + 2)..FracBits : Bit(frac, k) = 1
               lsb   == Bit(frac, last)
               kept  == Truncate(frac, last)
               up    == guard = 1 /\ (rest \/ lsb = 1)
               inc   == AddAt(kept, (last - 1) \div LimbBits + 1,
                              2^(LimbBits - 1 - ((last - 1) % LimbBits)))
           IN IF up
              THEN [neg |-> neg, int |-> int + inc[2], frac |-> inc[1]]
              ELSE [neg |-> neg, int |-> int, frac |-> kept]

\* <<the first k limbs of r/b, the remainder left>>, for 0 <= r < b
RECURSIVE DivLimbs(_, _, _)
DivLimbs(r, b, k) ==
    IF k = 0 THEN <<(<<>>), r>>
    ELSE LET low == DivLimbs((r * Base) % b, b, k - 1)
         IN <<(<<(r * Base) \div b>>) \o low[1], low[2]>>

\* Python's d / m on two ints, m # 0: the correctly rounded quotient
FDiv(d, m) ==
    LET a == Abs(d)
        b == Abs(m)
        q == DivLimbs(a % b, b, NLimbs)
    IN RoundToPrecision((d < 0) # (m < 0), a \div b, q[1], q[2] # 0)

\* <<limbs k..NLimbs of frac * n, carry out of limb k>>
RECURSIVE MulLimbs(_, _, _)
MulLimbs(frac, n, k) ==
    IF k > NLimbs THEN <<(<<>>), 0>>
    ELSE LET low == MulLimbs(frac, n, k + 1)
             v   == frac[k] * n + low[2]
         IN <<(<<v % Base>>) \o low[1], v \div Base>>

\* Python's x * n for a float x and an int n >= 0
FMul(x, n) ==
    LET prod == MulLimbs(x.frac, n, 1)
    IN RoundToPrecision(x.neg, x.int * n + prod[2], prod[1], FALSE)

\* 1 - 0.frac for a non-zero fraction
Complement(frac) ==
    AddAt(SubSeq([j \in 1..NLimbs |-> Base - 1 - frac[j]], 1, NLimbs),
          NLimbs, 1)[1]

\* Python's s + x for an int s >= 0 and a float x
FAdd(s, x) ==
    IF ~x.neg
    THEN RoundToPrecision(FALSE, s + x.int, x.frac, FALSE)
    ELSE IF IsZeroFrac(x.frac)
    THEN RoundToPrecision(s < x.int, Abs(s - x.int), x.frac, FALSE)
    ELSE IF s > x.int
    THEN RoundToPrecision(FALSE, s - x.int - 1, Complement(x.frac), FALSE)
    ELSE RoundToPrecision(TRUE, x.int - s, x.frac, FALSE)

\* Python 3's round(x) on a float, one argument: the nearest int, an exact
\* tie going to the even neighbour
PyRound(x) ==
    LET half == Bit(x.frac, 1) = 1
        more == \E k \in 2..FracBits : Bit(x.frac, k) = 1
        mag  == IF half /\ (more \/ x.int % 2 = 1) THEN x.int + 1 ELSE x.int
    IN IF x.neg THEN 0 - mag ELSE mag

\* ---------------------------------------------------- webcolors, hex side
\* the sixteen lowercase hexadecimal digits, digit v at index v + 1
HexDigits == <<"0", "1", "2", "3", "4", "5", "6", "7",
               "8", "9", "a", "b", "c", "d", "e", "f">>

UpperDigits == <<"0", "1", "2", "3", "4", "5", "6", "7",
                 "8", "9", "A", "B", "C", "D", "E", "F">>

IsHexDigit(ch) == \E v \in 1..16 : HexDigits[v] = ch \/ UpperDigits[v] = ch

\* int(ch, 16) for one hexadecimal digit of either case
HexVal(ch) == (CHOOSE v \in 1..16 : HexDigits[v] = ch \/ UpperDigits[v] = ch) - 1

\* webcolors accepts '#' followed by three or six hexadecimal digits
ValidHex(hex) ==
    /\ Len(hex) \in {4, 7}
    /\ hex[1] = "#"
    /\ \A k \in 2..Len(hex) : IsHexDigit(hex[k])

\* the six digits of a valid colour, a three-digit colour doubling each digit
SixDigits(hex) ==
    IF Len(hex) = 7 THEN SubSeq(hex, 2, 7)
    ELSE <<hex[2], hex[2], hex[3], hex[3], hex[4], hex[4]>>

\* hex_to_rgb on a valid colour: the IntegerRGB triple
hex_to_rgb(hex_color) ==
    LET d == SixDigits(hex_color)
    IN [red   |-> 16 * HexVal(d[1]) + HexVal(d[2]),
        green |-> 16 * HexVal(d[3]) + HexVal(d[4]),
        blue  |-> 16 * HexVal(d[5]) + HexVal(d[6])]

\* the two digits in the wrong order
TwoHex_Swap(v) == <<HexDigits[(v % 16) + 1], HexDigits[v \div 16 + 1]>>

\* '{:02x}' of one channel value in 0..255
TwoHex(v) == <<HexDigits[v \div 16 + 1], HexDigits[(v % 16) + 1]>>

\* webcolors clips each channel to 0..255 before formatting
Normalize(v) == IF v < 0 THEN 0 ELSE IF v > 255 THEN 255 ELSE v

\* rgb_to_hex on a triple <<r, g, b>>: lowercase '#rrggbb'
rgb_to_hex(rgb_tuple) ==
    <<"#">> \o TwoHex(Normalize(rgb_tuple[1]))
            \o TwoHex(Normalize(rgb_tuple[2]))
            \o TwoHex(Normalize(rgb_tuple[3]))

\* ------------------------------------------------- interpolate_color parts
\* the operands of the subtraction exchanged
StepOf_Swap(startc, endc, n) == FDiv(startc - endc, n - 1)

\* the step taken as a magnitude
StepOf_Abs(startc, endc, n) == FDiv(Abs(endc - startc), n - 1)

\* Step = (End - Start) / (N - 1), one channel
StepOf(startc, endc, n) == FDiv(endc - startc, n - 1)

\* the 1-based index used in the product
Interp_Next(startc, step, idx) == PyRound(FAdd(startc, FMul(step, idx + 1)))

\* int() without round(): truncation towards zero
Interp_Trunc(startc, step, idx) ==
    LET x == FAdd(startc, FMul(step, idx))
    IN IF x.neg THEN 0 - x.int ELSE x.int

\* int(round(start + step * i)), one channel
Interp(startc, step, idx) == PyRound(FAdd(startc, FMul(step, idx)))

\* a clamp that is off by one
Clamp_Shift(v) == Max(0, Min(255, v)) + 1

\* max(0, min(255, v))
Clamp(v) == Max(0, Min(255, v))

\* a range that runs one value too far
InRange_Off(k, n) == k <= n

\* range(num_steps) still has the value k to yield
InRange(k, n) == k < n

\* str(n) for n >= 0, as a sequence of characters
RECURSIVE Decimal(_)
Decimal(n) ==
    IF n < 10 THEN <<HexDigits[n + 1]>>
    ELSE Decimal(n \div 10) \o <<HexDigits[(n % 10) + 1]>>

\* the 0-based index in the name
VariableName_Zero(category, idx) ==
    <<"--color-chart-">> \o category \o <<"-">> \o Decimal(idx)

\* f"--color-chart-{category_name}-{i + 1}"; the literal prefix is one token
VariableName(category, idx) ==
    <<"--color-chart-">> \o category \o <<"-">> \o Decimal(idx + 1)

\* f"{variable_name}: {new_hex};\n"
CssLine(variable_name, hex) ==
    variable_name \o <<":", " ">> \o hex \o <<";", "\n">>

\* the last line lost
StdoutText_Drop(s) == SubSeq(s, 1, Len(s) - 1) \o <<(<<"\n">>)>>

\* print(s) writes s and a newline; text is kept as a sequence of
\* newline-terminated lines
StdoutText(s) == s \o <<(<<"\n">>)>>

\* ------------------------------------------------------------ configuration
CATEGORY == <<"R", "e", "d">>

START_HEX == <<"#", "f", "c", "a", "5", "a", "5">>

END_HEX == <<"#", "d", "c", "2", "6", "2", "6">>

NUM_COLORS == 100

\* ------------------------------------------------------------------ inputs
\* colour strings a caller may pass: six-digit colours, an uppercase one, a
\* three-digit one, and two strings webcolors rejects
HexInputs ==
    { START_HEX, END_HEX,
      <<"#", "0", "0", "0", "0", "0", "0">>,
      <<"#", "f", "f", "f", "f", "f", "f">>,
      <<"#", "0", "0", "0", "1", "f", "e">>,
      <<"#", "0", "1", "0", "0", "f", "f">>,
      <<"#", "f", "e", "0", "1", "0", "2">>,
      <<"#", "0", "1", "f", "e", "0", "3">>,
      <<"#", "F", "C", "A", "5", "A", "5">>,
      <<"#", "f", "0", "c">>,
      <<"#", "z", "z", "z", "z", "z", "z">>,
      <<"f", "c", "a", "5", "a", "5">> }

\* a step count past the point where the float product step * i first
\* leaves the exact value
DeepSteps == 3 * MaxSteps

StepCounts == ((0 - 1)..MaxSteps) \cup {DeepSteps}

Categories == { CATEGORY, <<"a", "-", "1">> }

\* ------------------------------------------------------------------- state
VARIABLES
    pc,                    \* position in the script
    start_hex, end_hex,    \* arguments of interpolate_color
    num_steps, category_name,
    start_rgb, end_rgb,    \* lines 20-21
    css_variables_string,  \* line 24, a sequence of lines
    r_step, g_step, b_step,\* lines 29-31, floats
    iter,                  \* next value of the range iterator
    i,                     \* loop variable
    r, g, b,               \* lines 35-42
    new_hex,               \* line 45
    css_output,            \* line 68
    stdout,                \* what print has written, a sequence of lines
    err,                   \* the exception that ended the run, or "none"
    rt_pc, rt_rgb, rt_hex, rt_back   \* the conversion round trip

vars == <<pc, start_hex, end_hex, num_steps, category_name, start_rgb, end_rgb,
          css_variables_string, r_step, g_step, b_step, iter, i, r, g, b,
          new_hex, css_output, stdout, err, rt_pc, rt_rgb, rt_hex, rt_back>>

args == <<start_hex, end_hex, num_steps, category_name>>

rtvars == <<rt_pc, rt_rgb, rt_hex, rt_back>>

NoRgb == [red |-> 0, green |-> 0, blue |-> 0]

\* values of the locals before their first assignment
Unassigned ==
    /\ start_rgb = NoRgb /\ end_rgb = NoRgb
    /\ css_variables_string = <<>>
    /\ r_step = FInt(0) /\ g_step = FInt(0) /\ b_step = FInt(0)
    /\ iter = 0 /\ i = 0
    /\ r = 0 /\ g = 0 /\ b = 0
    /\ new_hex = <<>>
    /\ css_output = <<>>
    /\ stdout = <<>>
    /\ err = "none"

RtIdle == rt_pc = "idle" /\ rt_rgb = <<0, 0, 0>> /\ rt_hex = <<>> /\ rt_back = NoRgb

\* the call of line 68, with the script's own configuration or with any
\* other arguments from the input sets
Init ==
    /\ pc = "call"
    /\ \/ /\ start_hex \in HexInputs
          /\ end_hex \in HexInputs
          /\ num_steps \in StepCounts
          /\ category_name \in Categories
       \/ /\ start_hex = START_HEX
          /\ end_hex = END_HEX
          /\ num_steps = NUM_COLORS
          /\ category_name = CATEGORY
    /\ Unassigned
    /\ RtIdle

\* raise: the exception leaves interpolate_color and ends the script
Raise(kind) ==
    /\ pc' = "raised"
    /\ err' = kind

\* line 20
ParseStart ==
    /\ pc = "call"
    /\ IF ValidHex(start_hex)
       THEN /\ start_rgb' = hex_to_rgb(start_hex)
            /\ pc' = "parse_end"
            /\ UNCHANGED err
       ELSE /\ Raise("ValueError")
            /\ UNCHANGED start_rgb
    /\ UNCHANGED <<args, end_rgb, css_variables_string, r_step, g_step, b_step,
                   iter, i, r, g, b, new_hex, css_output, stdout, rtvars>>

\* line 21
ParseEnd ==
    /\ pc = "parse_end"
    /\ IF ValidHex(end_hex)
       THEN /\ end_rgb' = hex_to_rgb(end_hex)
            /\ pc' = "steps"
            /\ UNCHANGED err
       ELSE /\ Raise("ValueError")
            /\ UNCHANGED end_rgb
    /\ UNCHANGED <<args, start_rgb, css_variables_string, r_step, g_step, b_step,
                   iter, i, r, g, b, new_hex, css_output, stdout, rtvars>>

\* lines 24-33: the empty string, the three steps (a division by zero when
\* num_steps is 1), and the range iterator
ComputeSteps ==
    /\ pc = "steps"
    /\ css_variables_string' = <<>>
    /\ IF num_steps - 1 = 0
       THEN /\ Raise("ZeroDivisionError")
            /\ UNCHANGED <<r_step, g_step, b_step, iter>>
       ELSE /\ r_step' = StepOf(start_rgb.red, end_rgb.red, num_steps)
            /\ g_step' = StepOf(start_rgb.green, end_rgb.green, num_steps)
            /\ b_step' = StepOf(start_rgb.blue, end_rgb.blue, num_steps)
            /\ iter' = 0
            /\ pc' = "loop"
            /\ UNCHANGED err
    /\ UNCHANGED <<args, start_rgb, end_rgb, i, r, g, b, new_hex, css_output,
                   stdout, rtvars>>

\* line 33: the next value of range(num_steps), or the end of the loop
LoopNext ==
    /\ pc = "loop"
    /\ IF InRange(iter, num_steps)
       THEN /\ i' = iter
            /\ iter' = iter + 1
            /\ pc' = "interp"
       ELSE /\ pc' = "return"
            /\ UNCHANGED <<i, iter>>
    /\ UNCHANGED <<args, start_rgb, end_rgb, css_variables_string, r_step,
                   g_step, b_step, r, g, b, new_hex, css_output, stdout, err,
                   rtvars>>

\* lines 35-37
Interpolate ==
    /\ pc = "interp"
    /\ r' = Interp(start_rgb.red, r_step, i)
    /\ g' = Interp(start_rgb.green, g_step, i)
    /\ b' = Interp(start_rgb.blue, b_step, i)
    /\ pc' = "clamp"
    /\ UNCHANGED <<args, start_rgb, end_rgb, css_variables_string, r_step,
                   g_step, b_step, iter, i, new_hex, css_output, stdout, err,
                   rtvars>>

\* lines 40-42
ClampChannels ==
    /\ pc = "clamp"
    /\ r' = Clamp(r)
    /\ g' = Clamp(g)
    /\ b' = Clamp(b)
    /\ pc' = "emit"
    /\ UNCHANGED <<args, start_rgb, end_rgb, css_variables_string, r_step,
                   g_step, b_step, iter, i, new_hex, css_output, stdout, err,
                   rtvars>>

\* lines 45-49
Emit ==
    /\ pc = "emit"
    /\ new_hex' = rgb_to_hex(<<r, g, b>>)
    /\ css_variables_string' =
         Append(css_variables_string,
                CssLine(VariableName(category_name, i), new_hex'))
    /\ pc' = "loop"
    /\ UNCHANGED <<args, start_rgb, end_rgb, r_step, g_step, b_step, iter, i,
                   r, g, b, css_output, stdout, err, rtvars>>

\* lines 51 and 68
Return ==
    /\ pc = "return"
    /\ css_output' = css_variables_string
    /\ pc' = "print"
    /\ UNCHANGED <<args, start_rgb, end_rgb, css_variables_string, r_step,
                   g_step, b_step, iter, i, r, g, b, new_hex, stdout, err,
                   rtvars>>

\* line 69
WriteStdout ==
    /\ pc = "print"
    /\ stdout' = stdout \o StdoutText(css_output)
    /\ pc' = "done"
    /\ UNCHANGED <<args, start_rgb, end_rgb, css_variables_string, r_step,
                   g_step, b_step, iter, i, r, g, b, new_hex, css_output, err,
                   rtvars>>

Next ==
    \/ ParseStart
    \/ ParseEnd
    \/ ComputeSteps
    \/ LoopNext
    \/ Interpolate
    \/ ClampChannels
    \/ Emit
    \/ Return
    \/ WriteStdout

Spec == Init /\ [][Next]_vars

\* -------------------------------------------- the conversion round trip
RTCount == 6

\* channel values spread over 0..255
RTVals == { (k * 37) % 256 : k \in 0..(RTCount - 1) }

InitRT ==
    /\ pc = "idle"
    /\ start_hex = START_HEX /\ end_hex = END_HEX
    /\ num_steps = NUM_COLORS /\ category_name = CATEGORY
    /\ Unassigned
    /\ rt_pc = "start"
    /\ rt_rgb \in (0..255) \X RTVals \X RTVals
    /\ rt_hex = <<>>
    /\ rt_back = NoRgb

\* rgb_to_hex, lines 9-12
ToHex ==
    /\ rt_pc = "start"
    /\ rt_hex' = rgb_to_hex(rt_rgb)
    /\ rt_pc' = "hex"
    /\ UNCHANGED <<pc, args, start_rgb, end_rgb, css_variables_string, r_step,
                   g_step, b_step, iter, i, r, g, b, new_hex, css_output,
                   stdout, err, rt_rgb, rt_back>>

\* hex_to_rgb, lines 4-6
FromHex ==
    /\ rt_pc = "hex"
    /\ IF ValidHex(rt_hex)
       THEN rt_back' = hex_to_rgb(rt_hex) /\ rt_pc' = "back"
       ELSE rt_back' = rt_back /\ rt_pc' = "raised"
    /\ UNCHANGED <<pc, args, start_rgb, end_rgb, css_variables_string, r_step,
                   g_step, b_step, iter, i, r, g, b, new_hex, css_output,
                   stdout, err, rt_rgb, rt_hex>>

NextRT == ToHex \/ FromHex

SpecRT == InitRT /\ [][NextRT]_vars

\* ------------------------------------------------------- reading the output
Channels == {"red", "green", "blue"}

\* the '#rrggbb' value of an output line
ValueOf(line) == SubSeq(line, Len(line) - 8, Len(line) - 2)

\* the variable name of an output line
NameOf(line) == SubSeq(line, 1, Len(line) - 11)

ColourOf(line) == hex_to_rgb(ValueOf(line))

\* the number a sequence of decimal digits denotes
RECURSIVE DecimalValue(_)
DecimalValue(ds) ==
    IF ds = <<>> THEN 0
    ELSE 10 * DecimalValue(SubSeq(ds, 1, Len(ds) - 1)) + HexVal(ds[Len(ds)])

\* the numeric index at the end of a variable name of this invocation
IndexOf(name) == DecimalValue(SubSeq(name, Len(category_name) + 3, Len(name)))

\* the entry lines of a text: all but the bare newline print adds
Entries(text) == SelectSeq(text, LAMBDA l : Len(l) > 1)

ValidRun == ValidHex(start_hex) /\ ValidHex(end_hex) /\ num_steps >= 2

Returned == pc \in {"print", "done"}

\* 2 * (N - 1) times the exact value start[c] + (end[c] - start[c]) * k / (N - 1)
Exact2(c, k) ==
    2 * (start_rgb[c] * (num_steps - 1) + (end_rgb[c] - start_rgb[c]) * k)

\* ------------------------------------------------------------------- claims
\* C1: for valid colours and N >= 2 the run does not fail and the returned
\* string, and the printed text, hold exactly N entries.
C1_ExactlyN ==
    /\ ValidRun => pc # "raised"
    /\ (Returned /\ num_steps >= 2) =>
         /\ Len(css_output) = num_steps
         /\ pc = "done" => Len(Entries(stdout)) = num_steps

C1_Witness ==
    pc = "done" /\ num_steps = MaxSteps /\ Len(Entries(stdout)) = MaxSteps

\* C2: for valid colours and N >= 2 the first entry is the start colour and
\* the last entry is the end colour, on all three channels.
C2_Endpoints ==
    (Returned /\ num_steps >= 2) =>
        /\ ColourOf(css_output[1]) = start_rgb
        /\ ColourOf(css_output[Len(css_output)]) = end_rgb

C2_Witness ==
    /\ pc = "done" /\ num_steps = DeepSteps
    /\ start_rgb.red = 254 /\ end_rgb.red = 1
    /\ ColourOf(css_output[Len(css_output)]).red = 1

\* C3: a step count below 2 never makes the call return a string.
C3_AlwaysFails == num_steps < 2 => ~Returned

\* C4 (as amended): every emitted channel value is an integer nearest to the
\* exact value start[c] + (end[c] - start[c]) * i / (N - 1).
C4_Nearest ==
    \A k \in 1..Len(css_variables_string) : \A c \in Channels :
        2 * Abs(2 * ColourOf(css_variables_string[k])[c] * (num_steps - 1)
                - Exact2(c, k - 1)) <= 2 * (num_steps - 1)

\* C4 (as stated): the value is the exact one rounded half away from zero,
\* floor(x + 1/2) for these non-negative values.
C4_HalfAwayFromZero ==
    \A k \in 1..Len(css_variables_string) : \A c \in Channels :
        ColourOf(css_variables_string[k])[c]
          = (Exact2(c, k - 1) + (num_steps - 1)) \div (2 * (num_steps - 1))

\* an exact tie was emitted, and it went to the lower neighbour
C4_Witness ==
    \E k \in 1..Len(css_variables_string) : \E c \in Channels :
        /\ Exact2(c, k - 1) % (2 * (num_steps - 1)) = num_steps - 1
        /\ 2 * ColourOf(css_variables_string[k])[c] * (num_steps - 1)
             < Exact2(c, k - 1)

\* C5: nothing is written before the whole ramp is built: a run that raised
\* wrote nothing, a failing input never has an entry on stdout, and stdout
\* is either empty or the full sequence.
C5_AllOrNothing ==
    /\ pc = "raised" => stdout = <<>>
    /\ ~ValidRun => Entries(stdout) = <<>>
    /\ stdout # <<>> =>
         /\ pc = "done"
         /\ Entries(stdout) = css_variables_string
         /\ Len(Entries(stdout)) = Max(0, num_steps)

C5_Witness ==
    /\ pc = "raised" /\ err = "ZeroDivisionError" /\ num_steps = 1
    /\ stdout = <<>>

\* C6: the k-th entry is named --color-chart-<category>-<k>, so the indices
\* start at 1, grow by 1, and no name occurs twice.
C6_Names ==
    LET out == IF pc = "done" THEN Entries(stdout) ELSE css_variables_string
    IN \A k \in 1..Len(out) :
         /\ SubSeq(NameOf(out[k]), 1, Len(category_name) + 2)
              = <<"--color-chart-">> \o category_name \o <<"-">>
         /\ IndexOf(NameOf(out[k])) = k
         /\ \A j \in 1..Len(out) : j # k => NameOf(out[j]) # NameOf(out[k])

C6_Witness ==
    /\ pc = "done" /\ Len(Entries(stdout)) = DeepSteps
    /\ IndexOf(NameOf(stdout[DeepSteps])) = DeepSteps

\* C7: every channel of every produced colour is an integer in 0..255: the
\* clamped values handed to rgb_to_hex and the values on every line.
C7_Range ==
    /\ pc = "emit" => r \in 0..255 /\ g \in 0..255 /\ b \in 0..255
    /\ \A k \in 1..Len(css_variables_string) :
         /\ ValidHex(ValueOf(css_variables_string[k]))
         /\ \A c \in Channels : ColourOf(css_variables_string[k])[c] \in 0..255

C7_Witness == pc = "emit" /\ i > 0 /\ r = 255 /\ g = 0 /\ num_steps >= 2

\* C8: converting a triple to hex and back yields the triple, and the hex
\* form is a lowercase #rrggbb string.
C8_RoundTrip ==
    /\ rt_pc # "raised"
    /\ rt_pc \in {"hex", "back"} =>
         /\ Len(rt_hex) = 7
         /\ rt_hex[1] = "#"
         /\ \A k \in 2..7 : \E v \in 1..16 : HexDigits[v] = rt_hex[k]
    /\ rt_pc = "back" =>
         <<rt_back.red, rt_back.green, rt_back.blue>> = rt_rgb

C8_Witness ==
    rt_pc = "back" /\ rt_rgb[1] = 171 /\ rt_back.red = 171 /\ rt_rgb[2] = 37

\* C9: the rounded value before clamping already lies between the start and
\* end channel values, so the clamp changes nothing.
C9_ClampNoOp ==
    pc = "clamp" =>
        /\ Min(start_rgb.red, end_rgb.red) <= r
        /\ r <= Max(start_rgb.red, end_rgb.red)
        /\ Min(start_rgb.green, end_rgb.green) <= g
        /\ g <= Max(start_rgb.green, end_rgb.green)
        /\ Min(start_rgb.blue, end_rgb.blue) <= b
        /\ b <= Max(start_rgb.blue, end_rgb.blue)
        /\ Clamp(r) = r /\ Clamp(g) = g /\ Clamp(b) = b

C9_Witness ==
    /\ pc = "clamp" /\ i > 0 /\ i < num_steps - 1
    /\ start_rgb.red = 0 /\ end_rgb.red = 255 /\ r > 0 /\ r < 255

\* C10: on each channel the emitted values never move away from the end
\* colour: non-decreasing when end >= start, non-increasing when end <= start.
C10_Monotone ==
    \A k \in 1..(Len(css_variables_string) - 1) : \A c \in Channels :
        LET v == ColourOf(css_variables_string[k])[c]
            w == ColourOf(css_variables_string[k + 1])[c]
        IN /\ end_rgb[c] >= start_rgb[c] => v <= w
           /\ end_rgb[c] <= start_rgb[c] => v >= w

C10_Witness ==
    /\ pc = "done" /\ num_steps = DeepSteps
    /\ start_rgb.red > end_rgb.red /\ start_rgb.green < end_rgb.green
    /\ ColourOf(css_output[2]).red < ColourOf(css_output[1]).red
    /\ ColourOf(css_output[2]).green > ColourOf(css_output[1]).green

====
